---- MODULE Spec2Model ----
(***************************************************************************)
(* Model of src/main.py: the Streamlit skills dashboard.                   *)
(*                                                                         *)
(* Strings are sequences of one-character strings, so that strip(),        *)
(* rfind(), count(), slicing and json.loads() are computed character by    *)
(* character as the Python code computes them.  A Score is a record        *)
(* [nan, v]: a float that is either NaN or the number v.                   *)
(***************************************************************************)
EXTENDS Integers, Sequences, FiniteSets, TLC

VARIABLES
    fileExists,      \* 'Caravel_Results.csv' is present
    csv,             \* its rows: sequence of [Name, Payload]
    views,           \* page views started so far
    pc,              \* position of the running page view
    cached,          \* st.cache_data holds a result for load_and_process_data
    cache,           \* that result: [df, firm_stats]
    i,               \* row index of the iterrows loop
    attorneys_data,  \* list built by the loop
    all_skills,      \* skill -> number of scores tracked by the loop
    df,              \* DataFrame of load_and_process_data
    firm_stats,      \* dict of load_and_process_data
    warnings,        \* st.warning calls made by the load
    loadErrors,      \* st.error calls made by the load
    loadReads,       \* pd.read_csv calls made by load_and_process_data
    mainReads,       \* pd.read_csv calls made by main
    bodyRuns,        \* executions of the body of load_and_process_data
    charts,          \* chart-construction functions called, in order
    pageErrors,      \* st.error calls made by main
    rstage,          \* payload-repair harness: stage reached
    rraw,            \* payload-repair harness: the cell text
    rstrip,          \* ... after strip()
    rclose,          \* ... after the truncation repair
    rcut,            \* ... after the balanced-structure extraction
    ragain           \* the repair applied once more: [piped, once, twice]

vars == <<fileExists, csv, views, pc, cached, cache, i, attorneys_data, all_skills,
          df, firm_stats, warnings, loadErrors, loadReads, mainReads, bodyRuns,
          charts, pageErrors, rstage, rraw, rstrip, rclose, rcut, ragain>>

loadVars == <<fileExists, csv, views, pc, cached, cache, i, attorneys_data, all_skills,
              df, firm_stats, warnings, loadErrors, loadReads, mainReads, bodyRuns,
              charts, pageErrors>>

repairVars == <<rstage, rraw, rstrip, rclose, rcut, ragain>>

(***************************************************************************)
(* Bounds                                                                  *)
(***************************************************************************)
MaxRows == 2     \* rows of the CSV file
MaxViews == 2    \* page views of one server process
MaxLen == 6      \* length of the cell texts of the repair harness

(***************************************************************************)
(* Python str operations                                                   *)
(***************************************************************************)
Q == "\""

IsSpace(c) == c = " "

RECURSIVE LStrip(_)
LStrip(s) == IF s # <<>> /\ IsSpace(Head(s)) THEN LStrip(Tail(s)) ELSE s

RECURSIVE RStrip(_)
RStrip(s) ==
    IF s # <<>> /\ IsSpace(s[Len(s)]) THEN RStrip(SubSeq(s, 1, Len(s) - 1)) ELSE s

\* str.strip()
Strip(s) == RStrip(LStrip(s))

\* str.startswith(c), str.endswith(c) for a one-character c
StartsWith(s, c) == s # <<>> /\ s[1] = c
EndsWith(s, c) == s # <<>> /\ s[Len(s)] = c

\* str.rfind(c): 0-based index of the last c, -1 when there is none
RECURSIVE RFindFrom(_, _, _)
RFindFrom(s, c, k) ==
    IF k = 0 THEN -1
    ELSE IF s[k] = c THEN k - 1
    ELSE RFindFrom(s, c, k - 1)

RFind(s, c) == RFindFrom(s, c, Len(s))

\* str.count(c)
Count(s, c) == Cardinality({k \in 1..Len(s) : s[k] = c})

\* s[:n]
Prefix(s, n) == SubSeq(s, 1, n)

(***************************************************************************)
(* Payload repair, lines 41-65                                             *)
(***************************************************************************)
CloseBeforeQuote(s) ==
    IF StartsWith(s, "{") /\ ~EndsWith(s, "}")
    THEN LET last_quote == RFind(s, Q)
         IN  IF last_quote > 0 THEN Prefix(s, last_quote) \o <<"}">> ELSE s
    ELSE s

\* lines 44-49: close a payload that looks truncated
CloseTruncated(s) ==
    IF StartsWith(s, "{") /\ ~EndsWith(s, "}")
    THEN LET last_quote == RFind(s, Q)
         IN  IF last_quote > 0 THEN Prefix(s, last_quote + 1) \o <<"}">> ELSE s
    ELSE s

\* lines 54-63: the scan for the first position where brace_count returns to 0;
\* k is the 1-based position of char, the result is end_pos (0 when not found)
RECURSIVE ScanBraces(_, _, _)
ScanBraces(s, k, brace_count) ==
    IF k > Len(s) THEN 0
    ELSE IF s[k] = "{" THEN ScanBraces(s, k + 1, brace_count + 1)
    ELSE IF s[k] = "}"
         THEN IF brace_count - 1 = 0 THEN k
              ELSE ScanBraces(s, k + 1, brace_count - 1)
    ELSE ScanBraces(s, k + 1, brace_count)

AnyClose(s) == Count(s, "}") > 0

\* line 52
MoreThanOneClose(s) == Count(s, "}") > 1

FirstObjectOpen(s) ==
    IF MoreThanOneClose(s)
    THEN LET end_pos == ScanBraces(s, 1, 0) - 1
         IN  IF end_pos > 0 THEN Prefix(s, end_pos) ELSE s
    ELSE s

\* lines 52-65: cut extra data after the first complete object
FirstObject(s) ==
    IF MoreThanOneClose(s)
    THEN LET end_pos == ScanBraces(s, 1, 0)
         IN  IF end_pos > 0 THEN Prefix(s, end_pos) ELSE s
    ELSE s

\* lines 44-65: the two repairs, without the strip() before them
Repair(s) == FirstObject(CloseTruncated(s))

\* lines 41-65
CleanPayload(s) == FirstObject(CloseTruncated(Strip(s)))

(***************************************************************************)
(* json.loads, line 68.  The decoder is modelled for texts without        *)
(* backslash, control characters, tab or newline and without the           *)
(* characters - . e E t f I, where it accepts: objects, arrays, strings,   *)
(* the integers 0|[1-9][0-9]*, null and NaN.                               *)
(* A decoded value is [ok, end, t, s, items]: t is its Python type, s the  *)
(* characters of a str or the digits of an int, items the (key, value)     *)
(* pairs of a dict in insertion order, each value kept as its type and s.  *)
(***************************************************************************)
Digits == {"0", "1", "2", "3", "4", "5", "6", "7", "8", "9"}

\* s[k:k+1] for a 1-based k: "" past the end
At(s, k) == IF k >= 1 /\ k <= Len(s) THEN s[k] ELSE ""

\* WHITESPACE.match(s, k).end()
RECURSIVE SkipWs(_, _)
SkipWs(s, k) == IF IsSpace(At(s, k)) THEN SkipWs(s, k + 1) ELSE k

JsonFail == [ok |-> FALSE, end |-> 0, t |-> "", s |-> <<>>, items |-> <<>>]

JsonVal(t, s, items, end) == [ok |-> TRUE, end |-> end, t |-> t, s |-> s, items |-> items]

\* s[k:k+len(w)] == w
IsLiteral(s, k, w) ==
    /\ k + Len(w) - 1 <= Len(s)
    /\ SubSeq(s, k, k + Len(w) - 1) = w

\* position of the next double quote at or after k, 0 when there is none
RECURSIVE FindQuote(_, _)
FindQuote(s, k) ==
    IF k > Len(s) THEN 0
    ELSE IF s[k] = Q THEN k
    ELSE FindQuote(s, k + 1)

\* scanstring: k is the position after the opening quote
ScanString(s, k) ==
    LET j == FindQuote(s, k)
    IN  IF j = 0 THEN JsonFail ELSE JsonVal("str", SubSeq(s, k, j - 1), <<>>, j + 1)

\* end of the run of digits starting at k: the first position after k that
\* holds no digit
DigitsEnd(s, k) ==
    LET stops == {j \in k..(Len(s) + 1) : At(s, j) \notin Digits}
    IN  CHOOSE j \in stops : \A m \in stops : j <= m

\* NUMBER_RE, integer part: 0|[1-9]\d*
ScanNumber(s, k) ==
    IF s[k] = "0" THEN JsonVal("int", <<"0">>, <<>>, k + 1)
    ELSE LET e == DigitsEnd(s, k) IN JsonVal("int", SubSeq(s, k, e - 1), <<>>, e)

\* dict[key] = value: a repeated key keeps its place and takes the new value
RECURSIVE DictSet(_, _)
DictSet(d, e) ==
    IF d = <<>> THEN <<e>>
    ELSE IF Head(d).k = e.k THEN <<e>> \o Tail(d)
    ELSE <<Head(d)>> \o DictSet(Tail(d), e)

RECURSIVE ScanOnce(_, _)
RECURSIVE ObjectMembers(_, _, _)
RECURSIVE ArrayElements(_, _)

\* JSONObject: k is the position after '{'
JSONObject(s, k) ==
    LET k1 == IF At(s, k) # Q THEN SkipWs(s, k) ELSE k
    IN  IF At(s, k1) = "}" THEN JsonVal("dict", <<>>, <<>>, k1 + 1)
        ELSE IF At(s, k1) # Q THEN JsonFail
        ELSE ObjectMembers(s, k1 + 1, <<>>)

\* the loop of JSONObject: k is the position after the opening quote of a key
ObjectMembers(s, k, acc) ==
    LET key == ScanString(s, k)
        colon == SkipWs(s, key.end)
        value == ScanOnce(s, SkipWs(s, colon + 1))
        next == SkipWs(s, value.end)
        pairs == DictSet(acc, [k |-> key.s, t |-> value.t, s |-> value.s])
        after == SkipWs(s, next + 1)
    IN  IF ~key.ok THEN JsonFail
        ELSE IF At(s, colon) # ":" THEN JsonFail
        ELSE IF ~value.ok THEN JsonFail
        ELSE IF At(s, next) = "}" THEN JsonVal("dict", <<>>, pairs, next + 1)
        ELSE IF At(s, next) # "," THEN JsonFail
        ELSE IF At(s, after) # Q THEN JsonFail
        ELSE ObjectMembers(s, after + 1, pairs)

\* JSONArray: k is the position after '['
JSONArray(s, k) ==
    LET k1 == SkipWs(s, k)
    IN  IF At(s, k1) = "]" THEN JsonVal("list", <<>>, <<>>, k1 + 1)
        ELSE ArrayElements(s, k1)

ArrayElements(s, k) ==
    LET value == ScanOnce(s, k)
        next == SkipWs(s, value.end)
    IN  IF ~value.ok THEN JsonFail
        ELSE IF At(s, next) = "]" THEN JsonVal("list", <<>>, <<>>, next + 1)
        ELSE IF At(s, next) # "," THEN JsonFail
        ELSE ArrayElements(s, SkipWs(s, next + 1))

\* scan_once
ScanOnce(s, k) ==
    LET c == At(s, k)
    IN  IF c = Q THEN ScanString(s, k + 1)
        ELSE IF c = "{" THEN JSONObject(s, k + 1)
        ELSE IF c = "[" THEN JSONArray(s, k + 1)
        ELSE IF c = "n" /\ IsLiteral(s, k, <<"n", "u", "l", "l">>)
             THEN JsonVal("NoneType", <<>>, <<>>, k + 4)
        ELSE IF c \in Digits THEN ScanNumber(s, k)
        ELSE IF c = "N" /\ IsLiteral(s, k, <<"N", "a", "N">>)
             THEN JsonVal("float", <<"N", "a", "N">>, <<>>, k + 3)
        ELSE JsonFail

\* json.loads: JSONDecodeError is [ok |-> FALSE]
JsonLoads(s) ==
    LET obj == ScanOnce(s, SkipWs(s, 1))
    IN  IF ~obj.ok THEN JsonFail
        ELSE IF SkipWs(s, obj.end) # Len(s) + 1 THEN JsonFail
        ELSE obj

(***************************************************************************)
(* Scores, lines 74-77                                                     *)
(***************************************************************************)
NaN == [nan |-> TRUE, v |-> 0]
Num(n) == [nan |-> FALSE, v |-> n]

DigitValue(c) ==
    CASE c = "0" -> 0 [] c = "1" -> 1 [] c = "2" -> 2 [] c = "3" -> 3 [] c = "4" -> 4
      [] c = "5" -> 5 [] c = "6" -> 6 [] c = "7" -> 7 [] c = "8" -> 8 [] c = "9" -> 9

RECURSIVE DigitsToNat(_)
DigitsToNat(d) ==
    IF d = <<>> THEN 0
    ELSE 10 * DigitsToNat(SubSeq(d, 1, Len(d) - 1)) + DigitValue(d[Len(d)])

\* the least integer float() cannot convert: 2^1024 - 2^970
FloatOverflowFrom == <<"1", "7", "9", "7", "6", "9", "3", "1", "3", "4", "8", "6", "2", "3", "1", "5", "8", "0", "7", "9", "3", "7", "2", "8", "9", "7", "1", "4", "0", "5", "3", "0", "3", "4", "1", "5", "0", "7", "9", "9", "3", "4", "1", "3", "2", "7", "1", "0", "0", "3", "7", "8", "2", "6", "9", "3", "6", "1", "7", "3", "7", "7", "8", "9", "8", "0", "4", "4", "4", "9", "6", "8", "2", "9", "2", "7", "6", "4", "7", "5", "0", "9", "4", "6", "6", "4", "9", "0", "1", "7", "9", "7", "7", "5", "8", "7", "2", "0", "7", "0", "9", "6", "3", "3", "0", "2", "8", "6", "4", "1", "6", "6", "9", "2", "8", "8", "7", "9", "1", "0", "9", "4", "6", "5", "5", "5", "5", "4", "7", "8", "5", "1", "9", "4", "0", "4", "0", "2", "6", "3", "0", "6", "5", "7", "4", "8", "8", "6", "7", "1", "5", "0", "5", "8", "2", "0", "6", "8", "1", "9", "0", "8", "9", "0", "2", "0", "0", "0", "7", "0", "8", "3", "8", "3", "6", "7", "6", "2", "7", "3", "8", "5", "4", "8", "4", "5", "8", "1", "7", "7", "1", "1", "5", "3", "1", "7", "6", "4", "4", "7", "5", "7", "3", "0", "2", "7", "0", "0", "6", "9", "8", "5", "5", "5", "7", "1", "3", "6", "6", "9", "5", "9", "6", "2", "2", "8", "4", "2", "9", "1", "4", "8", "1", "9", "8", "6", "0", "8", "3", "4", "9", "3", "6", "4", "7", "5", "2", "9", "2", "7", "1", "9", "0", "7", "4", "1", "6", "8", "4", "4", "4", "3", "6", "5", "5", "1", "0", "7", "0", "4", "3", "4", "2", "7", "1", "1", "5", "5", "9", "6", "9", "9", "5", "0", "8", "0", "9", "3", "0", "4", "2", "8", "8", "0", "1", "7", "7", "9", "0", "4", "1", "7", "4", "4", "9", "7", "7", "9", "2">>

\* a < b for two digit sequences of the same length
DigitsLess(a, b) ==
    \E k \in 1..Len(a) :
        /\ DigitValue(a[k]) < DigitValue(b[k])
        /\ \A m \in 1..(k - 1) : a[m] = b[m]

\* float(n) raises OverflowError for the int n with digits d
IntTooLarge(d) ==
    \/ Len(d) > Len(FloatOverflowFrom)
    \/ Len(d) = Len(FloatOverflowFrom) /\ ~DigitsLess(d, FloatOverflowFrom)

IsDigitString(s) == s # <<>> /\ \A k \in 1..Len(s) : s[k] \in Digits

\* the spellings of nan float() accepts, among the modelled letters
IsNanWord(s) == Len(s) = 3 /\ s[1] \in {"n", "N"} /\ s[2] = "a" /\ s[3] \in {"n", "N"}

\* float(str): ValueError is [ok |-> FALSE]
FloatOfStr(s) ==
    LET w == Strip(s)
    IN  IF IsDigitString(w) THEN [ok |-> TRUE, score |-> Num(DigitsToNat(w))]
        ELSE IF IsNanWord(w) THEN [ok |-> TRUE, score |-> NaN]
        ELSE [ok |-> FALSE, score |-> Num(0)]

\* line 75-77: [raised |-> TRUE] is an exception the inner handler does not catch
ScoreClean(t, s) ==
    IF t = "int"
    THEN IF IntTooLarge(s) THEN [raised |-> TRUE, score |-> Num(0)]
         ELSE [raised |-> FALSE, score |-> Num(DigitsToNat(s))]
    ELSE IF t = "float" THEN [raised |-> FALSE, score |-> NaN]
    ELSE IF t = "str"
    THEN LET f == FloatOfStr(s)
         IN  [raised |-> FALSE, score |-> IF f.ok THEN f.score ELSE Num(0)]
    ELSE [raised |-> FALSE, score |-> Num(0)]


(***************************************************************************)
(* The hand-maintained override list, lines 108-134.  "U+2014" stands for  *)
(* the one non-ASCII character of the list, the em dash.                   *)
(***************************************************************************)
manual_attorneys == <<
    [name |-> <<"H", "u", "g", "h", " ", "K", "e", "r", "r">>,
     skills_dict |-> <<
        [skill |-> <<"M", "&", "A", " ", "(", "S", "k", "i", "l", "l", " ", "1", "2", "0", ")">>,
         score |-> 7],
        [skill |-> <<"E", "s", "c", "r", "o", "w", " ", "A", "g", "r", "e", "e", "m", "e", "n", "t", "s", " ", "(", "S", "k", "i", "l", "l", " ", "6", "9", ")">>,
         score |-> 3],
        [skill |-> <<"F", "o", "u", "n", "d", "e", "r", " ", "A", "g", "r", "e", "e", "m", "e", "n", "t", "s", " ", "(", "S", "k", "i", "l", "l", " ", "7", "9", ")">>,
         score |-> 3],
        [skill |-> <<"C", "o", "m", "m", "e", "r", "c", "i", "a", "l", " ", "C", "o", "n", "t", "r", "a", "c", "t", "s", " ", "(", "S", "k", "i", "l", "l", " ", "1", "9", ")">>,
         score |-> 6],
        [skill |-> <<"D", "e", "b", "t", " ", "&", " ", "E", "q", "u", "i", "t", "y", " ", "F", "i", "n", "a", "n", "c", "i", "n", "g", " ", "(", "S", "k", "i", "l", "l", " ", "3", "9", ")">>,
         score |-> 6],
        [skill |-> <<"C", "o", "r", "p", "o", "r", "a", "t", "e", " ", "R", "e", "o", "r", "g", "a", "n", "i", "z", "a", "t", "i", "o", "n", " ", "(", "S", "k", "i", "l", "l", " ", "3", "0", ")">>,
         score |-> 3],
        [skill |-> <<"N", "o", "n", "-", "D", "i", "s", "c", "l", "o", "s", "u", "r", "e", " ", "A", "g", "r", "e", "e", "m", "e", "n", "t", "s", " ", "(", "S", "k", "i", "l", "l", " ", "1", "3", "1", ")">>,
         score |-> 5],
        [skill |-> <<"M", "a", "s", "t", "e", "r", " ", "S", "e", "r", "v", "i", "c", "e", "s", " ", "A", "g", "r", "e", "e", "m", "e", "n", "t", "s", " ", "(", "S", "k", "i", "l", "l", " ", "1", "2", "1", ")">>,
         score |-> 6],
        [skill |-> <<"P", "r", "o", "c", "u", "r", "e", "m", "e", "n", "t", " ", "(", "p", "u", "b", "l", "i", "c", ")", " ", "&", " ", "R", "F", "P", "s", " ", "(", "S", "k", "i", "l", "l", " ", "1", "4", "8", ")">>,
         score |-> 5],
        [skill |-> <<"P", "r", "o", "c", "u", "r", "e", "m", "e", "n", "t", " ", "(", "p", "r", "i", "v", "a", "t", "e", ")", " ", "&", " ", "R", "F", "P", "s", " ", "(", "S", "k", "i", "l", "l", " ", "1", "4", "7", ")">>,
         score |-> 5],
        [skill |-> <<"P", "u", "r", "c", "h", "a", "s", "e", " ", "a", "n", "d", " ", "S", "a", "l", "e", " ", "A", "g", "r", "e", "e", "m", "e", "n", "t", "s", " ", "(", "S", "k", "i", "l", "l", " ", "1", "5", "4", ")">>,
         score |-> 7],
        [skill |-> <<"A", "f", "f", "i", "l", "i", "a", "t", "e", " ", "M", "a", "r", "k", "e", "t", "i", "n", "g", " ", "A", "g", "r", "e", "e", "m", "e", "n", "t", "s", " ", "(", "S", "k", "i", "l", "l", " ", "4", ")">>,
         score |-> 3],
        [skill |-> <<"W", "a", "s", "t", "e", " ", "M", "a", "n", "a", "g", "e", "m", "e", "n", "t", " ", "a", "n", "d", " ", "R", "e", "c", "y", "c", "l", "i", "n", "g", " ", "(", "S", "k", "i", "l", "l", " ", "1", "6", "8", ")">>,
         score |-> 3],
        [skill |-> <<"I", "n", "t", "e", "l", "l", "e", "c", "t", "u", "a", "l", " ", "P", "r", "o", "p", "e", "r", "t", "y", " ", "L", "i", "c", "e", "n", "s", "i", "n", "g", " ", "(", "S", "k", "i", "l", "l", " ", "9", "9", ")">>,
         score |-> 3],
        [skill |-> <<"T", "e", "c", "h", "n", "o", "l", "o", "g", "y", " ", "L", "i", "c", "e", "n", "s", "i", "n", "g", "U+2014", "H", "a", "r", "d", "w", "a", "r", "e", " ", "(", "S", "k", "i", "l", "l", " ", "1", "6", "3", ")">>,
         score |-> 5],
        [skill |-> <<"D", "r", "u", "g", ",", " ", "A", "l", "c", "o", "h", "o", "l", ",", " ", "G", "a", "m", "i", "n", "g", " ", "R", "e", "g", "u", "l", "a", "t", "o", "r", "y", " ", "(", "S", "k", "i", "l", "l", " ", "4", "9", ")">>,
         score |-> 2],
        [skill |-> <<"I", "n", "d", "e", "p", "e", "n", "d", "e", "n", "t", " ", "C", "o", "n", "t", "r", "a", "c", "t", "o", "r", " ", "A", "g", "r", "e", "e", "m", "e", "n", "t", "s", " ", "(", "S", "k", "i", "l", "l", " ", "9", "1", ")">>,
         score |-> 3],
        [skill |-> <<"D", "i", "s", "t", "r", "i", "b", "u", "t", "i", "o", "n", " ", "a", "n", "d", " ", "S", "u", "p", "p", "l", "y", " ", "A", "g", "r", "e", "e", "m", "e", "n", "t", "s", " ", "(", "S", "k", "i", "l", "l", " ", "4", "7", ")">>,
         score |-> 7],
        [skill |-> <<"P", "r", "i", "v", "a", "t", "e", " ", "E", "q", "u", "i", "t", "y", " ", "a", "n", "d", " ", "V", "e", "n", "t", "u", "r", "e", " ", "C", "a", "p", "i", "t", "a", "l", " ", "(", "S", "k", "i", "l", "l", " ", "1", "4", "5", ")">>,
         score |-> 5],
        [skill |-> <<"C", "o", "m", "m", "e", "r", "c", "i", "a", "l", " ", "R", "e", "a", "l", " ", "E", "s", "t", "a", "t", "e", " ", "T", "r", "a", "n", "s", "a", "c", "t", "i", "o", "n", "s", " ", "(", "S", "k", "i", "l", "l", " ", "2", "0", ")">>,
         score |-> 3],
        [skill |-> <<"P", "r", "i", "v", "a", "t", "e", " ", "C", "o", "m", "p", "a", "n", "y", " ", "C", "o", "r", "p", "o", "r", "a", "t", "e", " ", "G", "o", "v", "e", "r", "n", "a", "n", "c", "e", " ", "(", "S", "k", "i", "l", "l", " ", "1", "4", "4", ")">>,
         score |-> 5],
        [skill |-> <<"E", "q", "u", "i", "t", "y", " ", "C", "o", "m", "p", "e", "n", "s", "a", "t", "i", "o", "n", " ", "o", "r", " ", "I", "n", "c", "e", "n", "t", "i", "v", "e", " ", "P", "l", "a", "n", "s", " ", "(", "S", "k", "i", "l", "l", " ", "6", "8", ")">>,
         score |-> 3],
        [skill |-> <<"J", "o", "i", "n", "t", " ", "V", "e", "n", "t", "u", "r", "e", "s", " ", "a", "n", "d", " ", "S", "t", "r", "a", "t", "e", "g", "i", "c", " ", "A", "l", "l", "i", "a", "n", "c", "e", "s", " ", "(", "S", "k", "i", "l", "l", " ", "1", "0", "7", ")">>,
         score |-> 3],
        [skill |-> <<"S", "h", "a", "r", "e", "h", "o", "l", "d", "e", "r", " ", "a", "n", "d", " ", "P", "a", "r", "t", "n", "e", "r", "s", "h", "i", "p", " ", "A", "g", "r", "e", "e", "m", "e", "n", "t", "s", " ", "(", "S", "k", "i", "l", "l", " ", "1", "5", "8", ")">>,
         score |-> 7],
        [skill |-> <<"P", "r", "o", "d", "u", "c", "t", " ", "W", "a", "r", "r", "a", "n", "t", "i", "e", "s", "/", "A", "g", "r", "e", "e", "m", "e", "n", "t", " ", "W", "a", "r", "r", "a", "n", "t", "i", "e", "s", " ", "(", "S", "k", "i", "l", "l", " ", "1", "5", "0", ")">>,
         score |-> 3],
        [skill |-> <<"B", "a", "n", "k", "r", "u", "p", "c", "t", "y", " ", "a", "n", "d", " ", "I", "n", "s", "o", "l", "v", "e", "n", "c", "y", " ", "(", "D", "e", "b", "t", "o", "r", "/", "C", "r", "e", "d", "i", "t", "o", "r", ")", " ", "(", "S", "k", "i", "l", "l", " ", "1", "1", ")">>,
         score |-> 3],
        [skill |-> <<"P", "r", "o", "f", "e", "s", "s", "i", "o", "n", "a", "l", " ", "S", "e", "r", "v", "i", "c", "e", "s", " ", "A", "g", "r", "e", "e", "m", "e", "n", "t", "s", " ", "a", "n", "d", " ", "r", "e", "l", "a", "t", "e", "d", " ", "S", "O", "W", "s", " ", "(", "S", "k", "i", "l", "l", " ", "1", "5", "1", ")">>,
         score |-> 3],
        [skill |-> <<"F", "o", "r", "m", "a", "t", "i", "o", "n", " ", "a", "n", "d", " ", "E", "n", "t", "i", "t", "y", " ", "C", "r", "e", "a", "t", "i", "o", "n", "/", "O", "p", "e", "r", "a", "t", "i", "n", "g", " ", "A", "g", "r", "e", "e", "m", "e", "n", "t", "s", " ", "(", "S", "k", "i", "l", "l", " ", "7", "8", ")">>,
         score |-> 3]
     >>],
    [name |-> <<"J", "e", "r", "e", "m", "y", " ", "B", "u", "d", "d">>,
     skills_dict |-> <<
        [skill |-> <<"M", "&", "A", " ", "(", "S", "k", "i", "l", "l", " ", "1", "2", "0", ")">>,
         score |-> 10],
        [skill |-> <<"O", "i", "l", " ", "a", "n", "d", " ", "G", "a", "s", " ", "R", "e", "g", "u", "l", "a", "t", "i", "o", "n", " ", "(", "S", "k", "i", "l", "l", " ", "1", "3", "4", ")">>,
         score |-> 9],
        [skill |-> <<"M", "i", "n", "i", "n", "g", " ", "(", "S", "k", "i", "l", "l", " ", "1", "2", "6", ")">>,
         score |-> 8],
        [skill |-> <<"C", "o", "m", "m", "e", "r", "c", "i", "a", "l", " ", "C", "o", "n", "t", "r", "a", "c", "t", "s", " ", "(", "S", "k", "i", "l", "l", " ", "1", "9", ")">>,
         score |-> 8],
        [skill |-> <<"D", "e", "b", "t", " ", "&", " ", "E", "q", "u", "i", "t", "y", " ", "F", "i", "n", "a", "n", "c", "i", "n", "g", " ", "(", "S", "k", "i", "l", "l", " ", "3", "9", ")">>,
         score |-> 7],
        [skill |-> <<"S", "e", "c", "u", "r", "i", "t", "i", "e", "s", " ", "a", "n", "d", " ", "C", "a", "p", "i", "t", "a", "l", " ", "M", "a", "r", "k", "e", "t", "s", " ", "(", "S", "k", "i", "l", "l", " ", "1", "5", "7", ")">>,
         score |-> 7],
        [skill |-> <<"C", "o", "r", "p", "o", "r", "a", "t", "e", " ", "B", "y", "l", "a", "w", "s", ",", " ", "R", "e", "c", "o", "r", "d", "s", " ", "a", "n", "d", " ", "G", "o", "v", "e", "r", "n", "a", "n", "c", "e", " ", "(", "S", "k", "i", "l", "l", " ", "2", "9", ")">>,
         score |-> 6],
        [skill |-> <<"P", "u", "r", "c", "h", "a", "s", "e", " ", "a", "n", "d", " ", "S", "a", "l", "e", " ", "A", "g", "r", "e", "e", "m", "e", "n", "t", "s", " ", "(", "S", "k", "i", "l", "l", " ", "1", "5", "4", ")">>,
         score |-> 6],
        [skill |-> <<"J", "o", "i", "n", "t", " ", "V", "e", "n", "t", "u", "r", "e", "s", " ", "a", "n", "d", " ", "S", "t", "r", "a", "t", "e", "g", "i", "c", " ", "A", "l", "l", "i", "a", "n", "c", "e", "s", " ", "(", "S", "k", "i", "l", "l", " ", "1", "0", "7", ")">>,
         score |-> 6],
        [skill |-> <<"C", "o", "r", "p", "o", "r", "a", "t", "e", " ", "R", "e", "o", "r", "g", "a", "n", "i", "z", "a", "t", "i", "o", "n", " ", "(", "S", "k", "i", "l", "l", " ", "3", "0", ")">>,
         score |-> 5],
        [skill |-> <<"E", "n", "e", "r", "g", "y", " ", "C", "o", "n", "t", "r", "a", "c", "t", "s", " ", "a", "n", "d", " ", "A", "g", "r", "e", "e", "m", "e", "n", "t", "s", " ", "(", "S", "k", "i", "l", "l", " ", "6", "1", ")">>,
         score |-> 5],
        [skill |-> <<"P", "r", "i", "v", "a", "t", "e", " ", "E", "q", "u", "i", "t", "y", " ", "a", "n", "d", " ", "V", "e", "n", "t", "u", "r", "e", " ", "C", "a", "p", "i", "t", "a", "l", " ", "(", "S", "k", "i", "l", "l", " ", "1", "4", "5", ")">>,
         score |-> 5],
        [skill |-> <<"D", "u", "e", " ", "D", "i", "l", "i", "g", "e", "n", "c", "e", " ", "a", "n", "d", " ", "V", "a", "l", "u", "a", "t", "i", "o", "n", " ", "(", "S", "k", "i", "l", "l", " ", "5", "0", ")">>,
         score |-> 5],
        [skill |-> <<"C", "r", "o", "s", "s", "-", "B", "o", "r", "d", "e", "r", " ", "T", "r", "a", "n", "s", "a", "c", "t", "i", "o", "n", "s", " ", "(", "S", "k", "i", "l", "l", " ", "3", "3", ")">>,
         score |-> 4],
        [skill |-> <<"M", "a", "s", "t", "e", "r", " ", "S", "e", "r", "v", "i", "c", "e", "s", " ", "A", "g", "r", "e", "e", "m", "e", "n", "t", "s", " ", "(", "S", "k", "i", "l", "l", " ", "1", "2", "1", ")">>,
         score |-> 4],
        [skill |-> <<"P", "r", "o", "f", "e", "s", "s", "i", "o", "n", "a", "l", " ", "S", "e", "r", "v", "i", "c", "e", "s", " ", "A", "g", "r", "e", "e", "m", "e", "n", "t", "s", " ", "a", "n", "d", " ", "r", "e", "l", "a", "t", "e", "d", " ", "S", "O", "W", "s", " ", "(", "S", "k", "i", "l", "l", " ", "1", "5", "1", ")">>,
         score |-> 4]
     >>]
>>

(***************************************************************************)
(* The CSV files of the model: up to MaxRows rows, each a name and a cell  *)
(* text taken from the lists below.                                        *)
(***************************************************************************)
\* {"a":1}   (a well-formed object)
PayloadWellFormed == <<"{", Q, "a", Q, ":", "1", "}">>

\*  {"a":2,"b":"3"}    (surrounding blanks, a numeric string)
PayloadTwoSkills == <<" ", "{", Q, "a", Q, ":", "2", ",", Q, "b", Q, ":", Q, "3", Q, "}", " ">>

\* {"a":"1"   (truncated after a string value: repairable)
PayloadTruncatedValue == <<"{", Q, "a", Q, ":", Q, "1", Q>>

\* {"a":1   (truncated after a number: not repairable)
PayloadTruncatedNumber == <<"{", Q, "a", Q, ":", "1">>

\* {"a":1}{"a":2}   (an object followed by extra data)
PayloadDuplicated == <<"{", Q, "a", Q, ":", "1", "}", "{", Q, "a", Q, ":", "2", "}">>

\* [1]   (valid JSON that is no object)
PayloadNotAnObject == <<"[", "1", "]">>

\* {"a":NaN}   (the NaN literal json.loads accepts)
PayloadNanScore == <<"{", Q, "a", Q, ":", "N", "a", "N", "}">>

\* {" a":"x","a":null}   (keys equal after strip(), non-numeric scores)
PayloadOddScores == <<"{", Q, " ", "a", Q, ":", Q, "x", Q, ",", Q, "a", Q, ":", "n", "u", "l", "l", "}">>

\* {"a}":1}   (a well-formed object with a brace in a key)
PayloadBraceInKey == <<"{", Q, "a", "}", Q, ":", "1", "}">>

\* {}   (an object with no entry)
PayloadEmptyObject == <<"{", "}">>

\* {"a":1000...0}: an integer of 310 digits, more than a float can hold
PayloadHugeInt ==
    <<"{", Q, "a", Q, ":", "1">> \o [k \in 1..Len(FloatOverflowFrom) |-> "0"] \o <<"}">>

Payloads ==
    {PayloadWellFormed,
     PayloadTwoSkills,
     PayloadTruncatedValue,
     PayloadTruncatedNumber,
     PayloadDuplicated,
     PayloadNotAnObject,
     PayloadNanScore,
     PayloadOddScores,
     PayloadBraceInKey,
     PayloadEmptyObject,
     PayloadHugeInt}

NameHughKerr == <<"H", "u", "g", "h", " ", "K", "e", "r", "r">>
NameAnn == <<" ", "A", "n", "n", " ">>
NameBo == <<"B", "o">>

Names == {NameHughKerr, NameAnn, NameBo}

Rows == [Name : Names, Payload : Payloads]

RECURSIVE SeqsUpTo(_, _)
SeqsUpTo(S, n) ==
    IF n = 0 THEN {<<>>}
    ELSE LET shorter == SeqsUpTo(S, n - 1)
         IN  shorter \cup {Append(q, x) : q \in {r \in shorter : Len(r) = n - 1}, x \in S}

CsvFiles == SeqsUpTo(Rows, MaxRows)

(***************************************************************************)
(* DataFrames: [columns, rows]                                             *)
(***************************************************************************)
\* pd.DataFrame()
EmptyFrame == [columns |-> {}, rows |-> <<>>]

\* pd.DataFrame(records): a list with no record gives a frame with no column
FrameOf(records) ==
    [columns |-> IF records = <<>> THEN {} ELSE {"Attorney", "Skill", "Score"},
     rows |-> records]

\* df.empty
FrameIsEmpty(frame) == frame.columns = {} \/ frame.rows = <<>>

\* df['Attorney'] raises KeyError
NoAttorneyColumn(frame) == "Attorney" \notin frame.columns

\* line 139: df[df['Attorney'] != name]
WithoutAttorney(frame, name) ==
    LET kept(r) == r.Attorney # name
    IN  [columns |-> frame.columns, rows |-> SelectSeq(frame.rows, kept)]

\* lines 148-153: pd.concat([df, new_row], ignore_index=True)
Concat(frame, r) ==
    [columns |-> frame.columns \cup {"Attorney", "Skill", "Score"},
     rows |-> Append(frame.rows, r)]

(***************************************************************************)
(* The loop over the rows, lines 35-102                                    *)
(***************************************************************************)
PlaceholderSkill ==
    <<"D", "a", "t", "a", " ", "P", "a", "r", "s", "i", "n", "g", " ",
      "E", "r", "r", "o", "r">>

\* lines 96-100
Placeholder(name) == [Attorney |-> name, Skill |-> PlaceholderSkill, Score |-> Num(0)]

\* line 93: ["Hugh Kerr", "Jeremy Budd"]
SilentNames ==
    {<<"H", "u", "g", "h", " ", "K", "e", "r", "r">>,
     <<"J", "e", "r", "e", "m", "y", " ", "B", "u", "d", "d">>}

IsSilentNever(name) == FALSE

\* line 93: name in ["Hugh Kerr", "Jeremy Budd"]
IsSilent(name) == name \in SilentNames

\* lines 41-68: the decoded payload of a row
Decoded(row) == JsonLoads(CleanPayload(row.Payload))

\* lines 85-89: the record of one entry of skills_dict
RecordOf(name, e) ==
    [Attorney |-> name, Skill |-> Strip(e.k), Score |-> ScoreClean(e.t, e.s).score]

\* lines 71-89: the records of the entries before the first one whose score raises
RECURSIVE RecordsOf(_, _)
RecordsOf(name, items) ==
    IF items = <<>> \/ ScoreClean(Head(items).t, Head(items).s).raised THEN <<>>
    ELSE <<RecordOf(name, Head(items))>> \o RecordsOf(name, Tail(items))

\* an entry of skills_dict raises out of the inner handlers (OverflowError)
SomeScoreRaises(items) == \E k \in 1..Len(items) : ScoreClean(items[k].t, items[k].s).raised

\* lines 80-82, 143-145: all_skills[skill].append(score)
Track(tracked, skill, score) ==
    IF skill \in DOMAIN tracked
    THEN [tracked EXCEPT ![skill] = Append(@, score)]
    ELSE [s \in DOMAIN tracked \cup {skill} |->
            IF s = skill THEN <<score>> ELSE tracked[s]]

RECURSIVE TrackAll(_, _)
TrackAll(tracked, records) ==
    IF records = <<>> THEN tracked
    ELSE TrackAll(Track(tracked, Head(records).Skill, Head(records).Score), Tail(records))

(***************************************************************************)
(* The manual additions, lines 137-153                                     *)
(***************************************************************************)
\* lines 141-153 for one attorney: one row per entry of skills_dict
RECURSIVE AddSkills(_, _, _)
AddSkills(frame, name, skills_dict) ==
    IF skills_dict = <<>> THEN frame
    ELSE AddSkills(Concat(frame, [Attorney |-> name,
                                   Skill |-> Head(skills_dict).skill,
                                   Score |-> Num(Head(skills_dict).score)]),
                   name, Tail(skills_dict))

\* lines 137-153 for manual_attorneys[k..]
RECURSIVE AddManual(_, _)
AddManual(frame, k) ==
    IF k > Len(manual_attorneys) THEN frame
    ELSE AddManual(AddSkills(WithoutAttorney(frame, manual_attorneys[k].name),
                             manual_attorneys[k].name,
                             manual_attorneys[k].skills_dict),
                   k + 1)

ManualRecords ==
    AddManual(FrameOf(<<[Attorney |-> <<>>, Skill |-> <<>>, Score |-> Num(0)]>>), 1).rows

(***************************************************************************)
(* The firm statistics, lines 156-177                                      *)
(***************************************************************************)
\* a > b on floats: False when either is NaN
Greater(a, b) == ~a.nan /\ ~b.nan /\ a.v > b.v

\* max(scores), min(scores): the builtin keeps its first candidate until a
\* later item compares greater (less)
RECURSIVE PyMax(_, _)
PyMax(best, scores) ==
    IF scores = <<>> THEN best
    ELSE PyMax(IF Greater(Head(scores), best) THEN Head(scores) ELSE best, Tail(scores))

RECURSIVE PyMin(_, _)
PyMin(best, scores) ==
    IF scores = <<>> THEN best
    ELSE PyMin(IF Greater(best, Head(scores)) THEN Head(scores) ELSE best, Tail(scores))

RECURSIVE Sum(_)
Sum(scores) == IF scores = <<>> THEN 0 ELSE Head(scores).v + Sum(Tail(scores))

\* np.mean(scores): NaN when a score is NaN, else the fraction sum / n
Mean(scores) ==
    [nan |-> \E k \in 1..Len(scores) : scores[k].nan,
     sum |-> Sum(scores),
     n |-> Len(scores)]

\* lines 160-166: all_skills_final[skill]
ScoresOf(frame, skill) ==
    LET hasSkill(r) == r.Skill = skill
        picked == SelectSeq(frame.rows, hasSkill)
    IN  [k \in 1..Len(picked) |-> picked[k].Score]

\* lines 172-177
StatsOf(scores) ==
    [avg_score |-> Mean(scores),
     max_score |-> PyMax(Head(scores), Tail(scores)),
     min_score |-> PyMin(Head(scores), Tail(scores)),
     count |-> Len(scores)]

\* lines 156-177
FirmStats(frame) ==
    [skill \in {frame.rows[k].Skill : k \in 1..Len(frame.rows)} |->
        StatsOf(ScoresOf(frame, skill))]

NoStats == <<>>

(***************************************************************************)
(* load_and_process_data, lines 17-187                                     *)
(***************************************************************************)
OnExceptionPartial(partial) == [df |-> FrameOf(partial), firm_stats |-> NoStats]

\* lines 184, 187: what the exception handlers return; partial is attorneys_data
\* as far as the loop got
OnException(partial) == [df |-> EmptyFrame, firm_stats |-> NoStats]

CacheNever == FALSE

\* st.cache_data, line 17: the call is answered from the cache
CacheHit == cached

NoLocals ==
    /\ i' = 0
    /\ attorneys_data' = <<>>
    /\ all_skills' = <<>>
    /\ df' = EmptyFrame
    /\ firm_stats' = NoStats

\* the exception handlers, lines 181-187: st.error, return (cached by the decorator)
Raise ==
    /\ loadErrors' = loadErrors + 1
    /\ cache' = OnException(attorneys_data)
    /\ cached' = TRUE
    /\ pc' = "check"
    /\ NoLocals

PageStarts == pc \in {"idle", "stopped", "done"} /\ views < MaxViews

\* line 266 on a cache hit
ViewCached ==
    /\ PageStarts
    /\ CacheHit
    /\ views' = views + 1
    /\ charts' = <<>>
    /\ pc' = "check"
    /\ UNCHANGED <<fileExists, csv, cached, cache, i, attorneys_data, all_skills, df,
                   firm_stats, warnings, loadErrors, loadReads, mainReads, bodyRuns,
                   pageErrors, repairVars>>

\* line 266 on a cache miss: the body of load_and_process_data starts
ViewLoads ==
    /\ PageStarts
    /\ ~CacheHit
    /\ views' = views + 1
    /\ charts' = <<>>
    /\ bodyRuns' = bodyRuns + 1
    /\ pc' = "read"
    /\ UNCHANGED <<fileExists, csv, cached, cache, i, attorneys_data, all_skills, df,
                   firm_stats, warnings, loadErrors, loadReads, mainReads,
                   pageErrors, repairVars>>

\* lines 22-32: the file is read
ReadCsv ==
    /\ pc = "read"
    /\ fileExists
    /\ loadReads' = loadReads + 1
    /\ i' = 1
    /\ attorneys_data' = <<>>
    /\ all_skills' = <<>>
    /\ pc' = "rows"
    /\ UNCHANGED <<fileExists, csv, views, cached, cache, df, firm_stats, warnings,
                   loadErrors, mainReads, bodyRuns, charts, pageErrors, repairVars>>

\* line 22 raises FileNotFoundError, lines 181-184
ReadCsvNotFound ==
    /\ pc = "read"
    /\ ~fileExists
    /\ loadReads' = loadReads + 1
    /\ Raise
    /\ UNCHANGED <<fileExists, csv, views, warnings, mainReads, bodyRuns, charts,
                   pageErrors, repairVars>>

RowPending == pc = "rows" /\ i <= Len(csv)

\* lines 36-89: the payload decodes to a dict and every score converts
RowParsed ==
    /\ RowPending
    /\ LET d == Decoded(csv[i])
           records == RecordsOf(Strip(csv[i].Name), d.items)
       IN  /\ d.ok /\ d.t = "dict" /\ ~SomeScoreRaises(d.items)
           /\ attorneys_data' = attorneys_data \o records
           /\ all_skills' = TrackAll(all_skills, records)
    /\ i' = i + 1
    /\ UNCHANGED <<fileExists, csv, views, pc, cached, cache, df, firm_stats, warnings,
                   loadErrors, loadReads, mainReads, bodyRuns, charts, pageErrors,
                   repairVars>>

\* lines 91-102: json.loads raised JSONDecodeError
RowSkipped ==
    /\ RowPending
    /\ ~Decoded(csv[i]).ok
    /\ LET name == Strip(csv[i].Name)
       IN  IF IsSilent(name)
           THEN UNCHANGED <<warnings, attorneys_data>>
           ELSE /\ warnings' = warnings + 1
                /\ attorneys_data' = Append(attorneys_data, Placeholder(name))
    /\ i' = i + 1
    /\ UNCHANGED <<fileExists, csv, views, pc, cached, cache, all_skills, df, firm_stats,
                   loadErrors, loadReads, mainReads, bodyRuns, charts, pageErrors,
                   repairVars>>

\* line 71 raises AttributeError (the payload decodes to no dict) or line 75
\* raises OverflowError: neither is caught at line 91, so lines 185-187 run
RowRaises ==
    /\ RowPending
    /\ LET d == Decoded(csv[i])
       IN  d.ok /\ (d.t # "dict" \/ SomeScoreRaises(d.items))
    /\ Raise
    /\ UNCHANGED <<fileExists, csv, views, warnings, loadReads, mainReads, bodyRuns,
                   charts, pageErrors, repairVars>>

\* line 105
CreateFrame ==
    /\ pc = "rows"
    /\ i > Len(csv)
    /\ df' = FrameOf(attorneys_data)
    /\ pc' = "manual"
    /\ UNCHANGED <<fileExists, csv, views, cached, cache, i, attorneys_data, all_skills,
                   firm_stats, warnings, loadErrors, loadReads, mainReads, bodyRuns,
                   charts, pageErrors, repairVars>>

\* lines 137-153
ManualAdditions ==
    /\ pc = "manual"
    /\ ~NoAttorneyColumn(df)
    /\ df' = AddManual(df, 1)
    /\ all_skills' = TrackAll(all_skills, ManualRecords)
    /\ pc' = "stats"
    /\ UNCHANGED <<fileExists, csv, views, cached, cache, i, attorneys_data, firm_stats,
                   warnings, loadErrors, loadReads, mainReads, bodyRuns, charts,
                   pageErrors, repairVars>>

\* line 139 raises KeyError on a frame without columns, lines 185-187
ManualAdditionsRaise ==
    /\ pc = "manual"
    /\ NoAttorneyColumn(df)
    /\ Raise
    /\ UNCHANGED <<fileExists, csv, views, warnings, loadReads, mainReads, bodyRuns,
                   charts, pageErrors, repairVars>>

\* lines 156-179: the statistics, and the return (cached by the decorator)
ComputeStats ==
    /\ pc = "stats"
    /\ cache' = [df |-> df, firm_stats |-> FirmStats(df)]
    /\ cached' = TRUE
    /\ pc' = "check"
    /\ NoLocals
    /\ UNCHANGED <<fileExists, csv, views, warnings, loadErrors, loadReads, mainReads,
                   bodyRuns, charts, pageErrors, repairVars>>

(***************************************************************************)
(* main, lines 261-481                                                     *)
(***************************************************************************)
\* line 269: df.empty or not firm_stats
NoData(result) == FrameIsEmpty(result.df) \/ DOMAIN result.firm_stats = {}

\* lines 269-272: st.error, st.stop()
PageStops ==
    /\ pc = "check"
    /\ NoData(cache)
    /\ pageErrors' = pageErrors + 1
    /\ pc' = "stopped"
    /\ UNCHANGED <<fileExists, csv, views, cached, cache, i, attorneys_data, all_skills,
                   df, firm_stats, warnings, loadErrors, loadReads, mainReads, bodyRuns,
                   charts, repairVars>>

\* lines 274-300: the diagnostics read the file again
Diagnostics ==
    /\ pc = "check"
    /\ ~NoData(cache)
    /\ mainReads' = mainReads + 1
    /\ pc' = "tab1"
    /\ UNCHANGED <<fileExists, csv, views, cached, cache, i, attorneys_data, all_skills,
                   df, firm_stats, warnings, loadErrors, loadReads, bodyRuns, charts,
                   pageErrors, repairVars>>

Chart(at, fn, to) ==
    /\ pc = at
    /\ charts' = Append(charts, fn)
    /\ pc' = to
    /\ UNCHANGED <<fileExists, csv, views, cached, cache, i, attorneys_data, all_skills,
                   df, firm_stats, warnings, loadErrors, loadReads, mainReads, bodyRuns,
                   pageErrors, repairVars>>

\* lines 314-353
FirmOverview == Chart("tab1", "create_skill_overview", "tab2")

\* lines 355-423
AttorneyProfile == Chart("tab2", "create_attorney_profile", "tab3")

\* lines 425-477
SkillComparison == Chart("tab3", "px.bar", "done")

(***************************************************************************)
(* The dashboard                                                           *)
(***************************************************************************)
NotAgain == [piped |-> <<>>, once |-> <<>>, twice |-> <<>>]

RepairOff ==
    /\ rstage = "off"
    /\ rraw = <<>>
    /\ rstrip = <<>>
    /\ rclose = <<>>
    /\ rcut = <<>>
    /\ ragain = NotAgain

Init ==
    /\ fileExists \in BOOLEAN
    /\ csv \in (IF fileExists THEN CsvFiles ELSE {<<>>})
    /\ views = 0
    /\ pc = "idle"
    /\ cached = FALSE
    /\ cache = [df |-> EmptyFrame, firm_stats |-> NoStats]
    /\ i = 0
    /\ attorneys_data = <<>>
    /\ all_skills = <<>>
    /\ df = EmptyFrame
    /\ firm_stats = NoStats
    /\ warnings = 0
    /\ loadErrors = 0
    /\ loadReads = 0
    /\ mainReads = 0
    /\ bodyRuns = 0
    /\ charts = <<>>
    /\ pageErrors = 0
    /\ RepairOff

Next ==
    \/ ViewCached
    \/ ViewLoads
    \/ ReadCsv
    \/ ReadCsvNotFound
    \/ RowParsed
    \/ RowSkipped
    \/ RowRaises
    \/ CreateFrame
    \/ ManualAdditions
    \/ ManualAdditionsRaise
    \/ ComputeStats
    \/ PageStops
    \/ Diagnostics
    \/ FirmOverview
    \/ AttorneyProfile
    \/ SkillComparison

Spec == Init /\ [][Next]_vars

(***************************************************************************)
(* The payload repair on its own: every cell text of up to MaxLen          *)
(* characters over the characters the repair tells apart.                  *)
(***************************************************************************)
RepairAlphabet == {"{", "}", Q, " ", "a"}

CellTexts == SeqsUpTo(RepairAlphabet, MaxLen)

\* line 41
RepairStrip ==
    /\ rstage = "raw"
    /\ rstrip' = Strip(rraw)
    /\ rstage' = "stripped"
    /\ UNCHANGED <<rraw, rclose, rcut, ragain, loadVars>>

\* lines 44-49
RepairClose ==
    /\ rstage = "stripped"
    /\ rclose' = CloseTruncated(rstrip)
    /\ rstage' = "closed"
    /\ UNCHANGED <<rraw, rstrip, rcut, ragain, loadVars>>

\* lines 52-65
RepairCut ==
    /\ rstage = "closed"
    /\ rcut' = FirstObject(rclose)
    /\ rstage' = "cut"
    /\ UNCHANGED <<rraw, rstrip, rclose, ragain, loadVars>>

\* lines 44-65 once more, on the repaired payload of the row (piped) and on
\* the cell text as it stands, not stripped (once, twice)
RepairAgain ==
    /\ rstage = "cut"
    /\ ragain' = [piped |-> Repair(rcut),
                  once |-> Repair(rraw),
                  twice |-> Repair(Repair(rraw))]
    /\ rstage' = "again"
    /\ UNCHANGED <<rraw, rstrip, rclose, rcut, loadVars>>

RepairInit ==
    /\ fileExists = FALSE
    /\ csv = <<>>
    /\ views = 0
    /\ pc = "off"
    /\ cached = FALSE
    /\ cache = [df |-> EmptyFrame, firm_stats |-> NoStats]
    /\ i = 0
    /\ attorneys_data = <<>>
    /\ all_skills = <<>>
    /\ df = EmptyFrame
    /\ firm_stats = NoStats
    /\ warnings = 0
    /\ loadErrors = 0
    /\ loadReads = 0
    /\ mainReads = 0
    /\ bodyRuns = 0
    /\ charts = <<>>
    /\ pageErrors = 0
    /\ rstage = "raw"
    /\ rraw \in CellTexts
    /\ rstrip = <<>>
    /\ rclose = <<>>
    /\ rcut = <<>>
    /\ ragain = NotAgain

RepairNext == RepairStrip \/ RepairClose \/ RepairCut \/ RepairAgain

SpecRepair == RepairInit /\ [][RepairNext]_vars


(***************************************************************************)
(* Properties                                                              *)
(***************************************************************************)
Min(S) == CHOOSE x \in S : \A y \in S : x <= y
Max(S) == CHOOSE x \in S : \A y \in S : x >= y

RowsOf(frame) == {frame.rows[k] : k \in 1..Len(frame.rows)}

\* the names of the override list, lines 108-134
OverrideNames == {manual_attorneys[k].name : k \in 1..Len(manual_attorneys)}

\* the payload of the row, as it stands in the cell, is a JSON object
WellFormedObject(row) == JsonLoads(row.Payload).ok /\ JsonLoads(row.Payload).t = "dict"

\* every entry of the payload of the row has a row in the table
Contributes(row, frame) ==
    LET items == JsonLoads(row.Payload).items
    IN  \A k \in 1..Len(items) :
            \E r \in RowsOf(frame) :
                r.Attorney = Strip(row.Name) /\ r.Skill = Strip(items[k].k)

\* C1: for a readable CSV, a row whose payload is no well-formed object never
\* aborts the load (the loop goes on), and in the returned table every row of the
\* CSV whose payload is a well-formed object (the override attorneys aside) has
\* all its skills.
C1_BadPayloadTolerated ==
    /\ [][RowPending /\ ~WellFormedObject(csv[i]) => pc' = "rows"]_vars
    /\ [](cached /\ fileExists =>
            \A k \in 1..Len(csv) :
                WellFormedObject(csv[k]) /\ Strip(csv[k].Name) \notin OverrideNames
                    => Contributes(csv[k], cache.df))

\* the (Skill, Score) pairs of the rows of an attorney, in table order
SkillsOf(frame, name) ==
    LET mine(r) == r.Attorney = name
        picked == SelectSeq(frame.rows, mine)
    IN  [k \in 1..Len(picked) |-> [skill |-> picked[k].Skill, score |-> picked[k].Score]]

Listed(skills_dict) ==
    [k \in 1..Len(skills_dict) |->
        [skill |-> skills_dict[k].skill, score |-> Num(skills_dict[k].score)]]

\* the row gets through the loop: line 71 or 75 raises nothing
PassesLoop(row) ==
    LET d == Decoded(row)
    IN  ~d.ok \/ (d.t = "dict" /\ ~SomeScoreRaises(d.items))

\* C2: after the load of a readable CSV, whatever its rows contain (a CSV whose
\* rows produce no table row included), the returned table holds, for each
\* override attorney, exactly the rows of the override list with the listed
\* scores and no other row.  Stated for the CSVs all of whose rows get through
\* the loop.
C2_OverridesAlwaysPresent ==
    cached /\ fileExists /\ (\A k \in 1..Len(csv) : PassesLoop(csv[k])) =>
        \A k \in 1..Len(manual_attorneys) :
            SkillsOf(cache.df, manual_attorneys[k].name)
                = Listed(manual_attorneys[k].skills_dict)

\* C3: a row whose payload fails to decode after the repair is skipped and the
\* loop goes on with the next row: for an attorney outside the override list one
\* warning and one placeholder row are added, for an override attorney nothing
\* is added; no row of the payload is added in either case.
C3_FailedRowSkipped ==
    [][RowPending /\ ~Decoded(csv[i]).ok =>
         /\ pc' = "rows"
         /\ i' = i + 1
         /\ loadErrors' = loadErrors
         /\ IF Strip(csv[i].Name) \in OverrideNames
            THEN warnings' = warnings /\ attorneys_data' = attorneys_data
            ELSE /\ warnings' = warnings + 1
                 /\ attorneys_data' =
                        Append(attorneys_data,
                               [Attorney |-> Strip(csv[i].Name),
                                Skill |-> PlaceholderSkill,
                                Score |-> Num(0)])]_vars

\* C3 witness: a failed row of an ordinary attorney, then a failed row of an
\* override attorney, have both been skipped.
C3_Witness ==
    /\ pc = "rows" /\ i = 3
    /\ ~Decoded(csv[1]).ok /\ Strip(csv[1].Name) \notin OverrideNames
    /\ ~Decoded(csv[2]).ok /\ Strip(csv[2].Name) \in OverrideNames
    /\ warnings = 1
    /\ Len(attorneys_data) = 1

\* a <= b on floats: False when either is NaN
LessEq(a, b) == ~a.nan /\ ~b.nan /\ a.v <= b.v

TableScores(frame, skill) == {r.Score : r \in {q \in RowsOf(frame) : q.Skill = skill}}

\* C4: the statistics have one entry per distinct Skill of the returned table;
\* count is the number of rows with the skill, max_score and min_score are the
\* largest and the smallest Score of these rows, and
\* min_score <= avg_score <= max_score.
C4_StatsMatchTable ==
    cached =>
        /\ DOMAIN cache.firm_stats = {r.Skill : r \in RowsOf(cache.df)}
        /\ \A skill \in DOMAIN cache.firm_stats :
            LET st == cache.firm_stats[skill]
                scores == TableScores(cache.df, skill)
            IN  /\ st.count = Cardinality({k \in 1..Len(cache.df.rows) :
                                             cache.df.rows[k].Skill = skill})
                /\ st.max_score \in scores
                /\ \A s \in scores : LessEq(s, st.max_score)
                /\ st.min_score \in scores
                /\ \A s \in scores : LessEq(st.min_score, s)
                /\ ~st.avg_score.nan
                /\ st.min_score.v * st.avg_score.n <= st.avg_score.sum
                /\ st.avg_score.sum <= st.max_score.v * st.avg_score.n

\* C5 as claimed: across the page views the file is read once, and only by the
\* cached load step.
C5_FileReadOnce == mainReads = 0 /\ loadReads <= 1

\* C5 as amended: across the page views the body of the cached load step runs
\* at most once and reads the file once, a page view that finds the result
\* cached does not run it again; main reads the file once more in every page
\* view that gets past the no-data check.
C5_LoadStepReadsOnce ==
    /\ bodyRuns <= 1
    /\ loadReads <= bodyRuns
    /\ (cached => loadReads = 1)
    /\ mainReads = IF cached /\ ~NoData(cache)
                   THEN views - (IF pc = "check" THEN 1 ELSE 0)
                   ELSE 0

\* C5 witness: a second page view, served from the cache, has been rendered.
C5_Witness ==
    /\ views = 2 /\ pc = "done"
    /\ bodyRuns = 1 /\ loadReads = 1 /\ mainReads = 2

Rendering == {"tab1", "tab2", "tab3", "done"}

ChartOrder == <<"create_skill_overview", "create_attorney_profile", "px.bar">>

\* C6: a page view renders only after the load has returned, in the order of
\* the tabs, and only with a non-empty table and non-empty statistics; after an
\* exception in the load the result is the empty table with empty statistics,
\* and the page view shows an error, stops and calls no chart function.
C6_RenderOnlyWithData ==
    /\ pc \in Rendering =>
            cached /\ ~FrameIsEmpty(cache.df) /\ DOMAIN cache.firm_stats # {}
    /\ charts = SubSeq(ChartOrder, 1, Len(charts))
    /\ charts # <<>> => pc \in Rendering
    /\ loadErrors > 0 =>
            /\ cached
            /\ cache.df.rows = <<>>
            /\ DOMAIN cache.firm_stats = {}
            /\ pc \in {"check", "stopped"}
    /\ pc = "stopped" => pageErrors > 0 /\ charts = <<>>

\* C6 witness: the file was there, a later row raised in the load after an
\* earlier row had been parsed, and the page view stopped.
C6_Witness ==
    /\ pc = "stopped" /\ fileExists /\ loadErrors = 1 /\ pageErrors = 1
    /\ Len(csv) = 2
    /\ Decoded(csv[1]).ok /\ Decoded(csv[1]).t = "dict" /\ Decoded(csv[1]).items # <<>>
    /\ Decoded(csv[2]).ok /\ Decoded(csv[2]).t # "dict"

\* the positions of a '}' at which as many '{' as '}' have been seen
BalancedAt(s) ==
    {k \in 1..Len(s) :
        s[k] = "}" /\ Count(Prefix(s, k), "{") = Count(Prefix(s, k), "}")}

\* C7: a cleaned payload with more than one '}' is cut to its shortest prefix
\* that ends at a '}' with as many '{' as '}' seen so far; with no such prefix,
\* or with at most one '}', it is left unchanged.
C7_FirstBalancedPrefix ==
    rstage \in {"cut", "again"} =>
        IF Cardinality({k \in 1..Len(rclose) : rclose[k] = "}"}) > 1
           /\ BalancedAt(rclose) # {}
        THEN rcut = Prefix(rclose, Min(BalancedAt(rclose)))
        ELSE rcut = rclose

\* C7 witness: a payload has been cut, and another position was balanced too.
C7_Witness ==
    /\ rstage = "cut"
    /\ rcut # rclose
    /\ Cardinality(BalancedAt(rclose)) > 1

QuotesOf(s) == {k \in 1..Len(s) : s[k] = Q}

\* C8: a stripped payload that starts with '{', does not end with '}' and has
\* its last double quote at an index above 0 becomes its prefix up to that
\* quote followed by '}'; any other payload is left unchanged by this step.
C8_TruncationRepair ==
    rstage \in {"closed", "cut", "again"} =>
        IF /\ rstrip # <<>>
           /\ rstrip[1] = "{"
           /\ rstrip[Len(rstrip)] # "}"
           /\ QuotesOf(rstrip) # {}
           /\ Max(QuotesOf(rstrip)) - 1 > 0
        THEN /\ rclose = Prefix(rstrip, Max(QuotesOf(rstrip))) \o <<"}">>
             /\ rclose[Len(rclose) - 1] = Q
             /\ rclose[Len(rclose)] = "}"
        ELSE rclose = rstrip

\* C8 witness: a payload has been closed after a quote that is not its last
\* character.
C8_Witness ==
    /\ rstage = "closed"
    /\ rclose # rstrip
    /\ rstrip[Len(rstrip)] # Q

\* the Score the claim gives an entry: the value of a number or of a numeric
\* string, 0 for anything else
ClaimedScore(e) ==
    IF e.t = "int" THEN Num(DigitsToNat(e.s))
    ELSE IF e.t = "float" THEN NaN
    ELSE IF e.t = "str" /\ IsDigitString(Strip(e.s)) THEN Num(DigitsToNat(Strip(e.s)))
    ELSE IF e.t = "str" /\ IsNanWord(Strip(e.s)) THEN NaN
    ELSE Num(0)

\* C9: every entry of a decoded payload adds exactly one row with the stripped
\* attorney name, the stripped skill name and a numeric Score (0 for a score
\* that is no number), and a bad score never fails the row.
C9_EveryEntryOneRow ==
    [][RowPending /\ Decoded(csv[i]).ok /\ Decoded(csv[i]).t = "dict" =>
         /\ pc' = "rows"
         /\ i' = i + 1
         /\ LET items == Decoded(csv[i]).items
            IN  /\ Len(attorneys_data') = Len(attorneys_data) + Len(items)
                /\ \A k \in 1..Len(items) :
                       attorneys_data'[Len(attorneys_data) + k] =
                           [Attorney |-> Strip(csv[i].Name),
                            Skill |-> Strip(items[k].k),
                            Score |-> ClaimedScore(items[k])]]_vars

\* C10: for every skill the count of the statistics is the number of distinct
\* attorneys with that skill in the returned table.
C10_CountIsAttorneys ==
    cached =>
        \A skill \in DOMAIN cache.firm_stats :
            cache.firm_stats[skill].count =
                Cardinality({r.Attorney : r \in {q \in RowsOf(cache.df) : q.Skill = skill}})


\* C11: the payload repair (truncation repair, then balanced-structure
\* extraction) applied to its own output returns that output unchanged, for the
\* repaired payload of a row and for every cell text as it stands.
C11_RepairIdempotent ==
    rstage = "again" =>
        /\ ragain.piped = rcut
        /\ ragain.twice = ragain.once

\* C11 witness: both repairs changed the payload, and the repair has been
\* applied to the result.
C11_Witness ==
    /\ rstage = "again"
    /\ rclose # rstrip
    /\ rcut # rclose
    /\ ragain.once # rraw

====
